---- MODULE Spec2Model ----
(***************************************************************************)
(* Model of the liveness-and-alerting core of subconverter-failover:       *)
(*   - HealthCheckConcurrencyController (admission, queue, deferred        *)
(*     cleanup, lazy statistics reset),                                    *)
(*   - ResilientTelegramNotifier (retry loop with exponential backoff),    *)
(*   - PriorityHealthCheck (fast and full probes run through the           *)
(*     controller, version extraction from the response body).             *)
(* Time is the value of Date.now() in milliseconds.                        *)
(***************************************************************************)
EXTENDS Integers, Sequences, FiniteSets, TLC

\* ------------------------------------------------------------------ bounds

\* scheduleCheck calls made during one behaviour
MaxCalls == 3
\* clock advances during one behaviour
MaxTicks == 2
\* config.maxConcurrent is drawn from 1..MaxConcurrentBound
MaxConcurrentBound == 2
\* explicit reset() calls during one behaviour
MaxResets == 1
\* priorityCheck / fullCheck calls during one behaviour of the probe specification
MaxProbes == 2

\* -------------------------------------------------------- program constants

\* setTimeout(..., 100) of the deferred cleanup
CleanupDelay == 100
\* now - item.addedTime < 30000
StaleAge == 30000
\* 5 * 60 * 1000
ResetInterval == 300000

\* getConfig(env, 'FAST_CHECK_TIMEOUT', 800)
FastTimeout == 800
\* getConfig(env, 'HEALTH_CHECK_TIMEOUT', 2000)
FullTimeout == 2000

\* this.maxRetries = 3
MaxRetries == 3
\* this.retryDelay = 1000
RetryDelay == 1000
\* this.fallbackEnabled = true
FallbackEnabled == TRUE

\* backend URLs handed to scheduleCheck
Urls == {"a", "b"}
\* what a check function can produce: a value it returns or an error it throws
Values == {"r1"}
Errors == {"e1"}
\* response.status of a probe's response
Statuses == {200, 503}
\* error.name of a failed fetch that was not aborted
FetchErrors == {"TypeError"}
\* 'subconverter v0.9.9-7544246 backend', as a sequence of characters
FullBanner == <<"s", "u", "b", "c", "o", "n", "v", "e", "r", "t", "e", "r", " ", "v", "0", ".", "9", ".", "9", "-", "7", "5", "4", "4", "2", "4", "6", " ", "b", "a", "c", "k", "e", "n", "d">>
\* what response.text() yields
Bodies == {FullBanner}
\* how far Date.now() moves between two events
Steps == {CleanupDelay, StaleAge, ResetInterval}

VARIABLES
    now,          \* Date.now()
    ticks,        \* clock advances so far
    resets,       \* explicit reset() calls so far
    config,       \* this.config
    activeChecks, \* this.activeChecks : Map taskKey -> entry
    queue,        \* this.queue : array of {task, url, requestId, addedTime}
    stats,        \* this.stats
    calls,        \* one record per scheduleCheck call: its closure and its promise
    timers,       \* pending setTimeout callbacks of the deferred cleanup, in creation order
    notifier,     \* one sendNotification call of a ResilientTelegramNotifier
    extraction    \* one extractVersionFromText call: its argument and what it returned

ctlVars == <<now, ticks, resets, config, activeChecks, queue, stats, calls, timers>>

vars == <<ctlVars, notifier, extraction>>

\* ----------------------------------------------------------------- helpers

Max(a, b) == IF a >= b THEN a ELSE b

EmptyMap == [k \in {} |-> 0]

MapSet(m, k, v) == [x \in (DOMAIN m) \cup {k} |-> IF x = k THEN v ELSE m[x]]

MapDelete(m, k) == [x \in (DOMAIN m) \ {k} |-> m[x]]

MapSize(m) == Cardinality(DOMAIN m)

None == [kind |-> "none", v |-> "none"]

\* the stats block written by the constructor and by reset()
FreshStats(t) ==
    [totalStarted |-> 0, totalCompleted |-> 0, maxActive |-> 0,
     errors |-> 0, successes |-> 0, lastResetTime |-> t]

\* `${url}-${Date.now()}`
TaskKey(url, t) == <<url, t>>

\* The controller's fields together with the closures of the calls, so that the
\* methods compose: c = [activeChecks, queue, stats, calls]
Ctl == [activeChecks |-> activeChecks, queue |-> queue, stats |-> stats, calls |-> calls]

\* The state of a probe's check function: where it is suspended, whether its
\* timeout timer is armed, what it has measured, and which of its catch blocks
\* it went through (bodyFailed: catch (textError); caught: the name of the
\* error of catch (error)).
IdleProbe ==
    [stage |-> "idle", timerArmed |-> FALSE, startTime |-> 0, timeoutAt |-> 0,
     responseTime |-> -1, status |-> -1, bodyFailed |-> FALSE, caught |-> "none"]

\* this.fastTimeout for priorityCheck, this.timeout for fullCheck
TimeoutOf(fn) == IF fn = "priority" THEN FastTimeout ELSE FullTimeout

\* checkFn up to `await fetch(...)`: the AbortController's timer is armed and
\* the request is under way
StartProbe(fn, t) ==
    [stage |-> "fetch", timerArmed |-> TRUE, startTime |-> t,
     timeoutAt |-> t + TimeoutOf(fn), responseTime |-> -1, status |-> -1,
     bodyFailed |-> FALSE, caught |-> "none"]

\* A closure nothing references any more (its timer has fired, or its queue
\* entry was dropped): what is left of the call is the caller's promise and
\* what its check function did.
Released(call, pc) ==
    [call EXCEPT !.pc = pc, !.url = "-", !.keyTime = 0, !.probe = IdleProbe]

\* ------------------------------------------------------------------ reset()

\* mutant: reset() also abandons the tasks in flight, whose check functions
\* then never deliver
resetCancelsRunning(c, t) ==
    [activeChecks |-> EmptyMap,
     queue        |-> <<>>,
     stats        |-> FreshStats(t),
     calls        |-> [i \in DOMAIN c.calls |->
                          IF c.calls[i].pc \in {"queued", "running"}
                          THEN Released(c.calls[i], "cleared")
                          ELSE c.calls[i]]]

\* reset(): clears the active set and the queue, zeroes the counters.  The
\* closures of running tasks are untouched; the queued closures are no longer
\* referenced by anything (pc "cleared").
reset(c, t) ==
    [activeChecks |-> EmptyMap,
     queue        |-> <<>>,
     stats        |-> FreshStats(t),
     calls        |-> [i \in DOMAIN c.calls |->
                          IF c.calls[i].pc = "queued"
                          THEN Released(c.calls[i], "cleared")
                          ELSE c.calls[i]]]

\* mutant: now - this.stats.lastResetTime >= 5 * 60 * 1000
NeedsResetAtBound(c, t) == t - c.stats.lastResetTime >= ResetInterval

\* now - this.stats.lastResetTime > 5 * 60 * 1000
NeedsReset(c, t) == t - c.stats.lastResetTime > ResetInterval

\* ------------------------------------------------------------------- task()

\* this.activeChecks.size < this.config.maxConcurrent
HasCapacity(c) == MapSize(c.activeChecks) < config.maxConcurrent

\* how many tasks have been started so far
Started(c) == Cardinality({j \in DOMAIN c.calls : c.calls[j].invoked > 0})

\* task() up to its await: the entry is written, the counters move and the
\* check function is invoked.
task(c, i, t) ==
    LET call   == c.calls[i]
        key    == TaskKey(call.url, call.keyTime)
        active == MapSet(c.activeChecks, key,
                         [url |-> call.url, requestId |-> i, startTime |-> t,
                          endTime |-> -1, status |-> "running",
                          success |-> "unset", error |-> "unset"])
    IN  [c EXCEPT
            !.activeChecks = active,
            !.stats.totalStarted = @ + 1,
            !.stats.maxActive = Max(@, MapSize(active)),
            !.calls[i].pc = "running",
            !.calls[i].invoked = @ + 1,
            !.calls[i].order = Started(c) + 1,
            !.calls[i].probe = IF call.fn = "raw" THEN IdleProbe
                               ELSE StartProbe(call.fn, t)]

\* {...this.activeChecks.get(taskKey), status, endTime, success[, error]}: the
\* spread of a missing entry (cleared by reset, or deleted by the cleanup of a
\* task with the same key) contributes no field.
Spread(m, key) ==
    IF key \in DOMAIN m
    THEN m[key]
    ELSE [url |-> "undefined", requestId |-> 0, startTime |-> -1,
          endTime |-> -1, status |-> "undefined", success |-> "unset",
          error |-> "unset"]

\* mutant: a queued call is wired task().then(resolve) without .catch(reject)
CallerPromiseNoCatch(call, r) ==
    IF call.queued /\ r.kind = "error" THEN None ELSE r

\* what the caller's promise settles with when task() settles with r:
\* `return task()` for an admitted call, task().then(resolve).catch(reject)
\* for a queued one
CallerPromise(call, r) == r

\* the try / catch / finally of task() once the check function has settled
\* with outcome r: counters, entry and the caller's promise (the action adds
\* the cleanup timer of the finally block).
settle(c, i, r, t) ==
    LET call == c.calls[i]
        key  == TaskKey(call.url, call.keyTime)
        old  == Spread(c.activeChecks, key)
        new  == IF r.kind = "value"
                THEN [old EXCEPT !.status = "completed", !.endTime = t,
                                 !.success = "true"]
                ELSE [old EXCEPT !.status = "failed", !.endTime = t,
                                 !.error = r.v, !.success = "false"]
    IN  [c EXCEPT
            !.activeChecks = MapSet(c.activeChecks, key, new),
            !.stats.successes = IF r.kind = "value" THEN @ + 1 ELSE @,
            !.stats.errors = IF r.kind = "error" THEN @ + 1 ELSE @,
            !.calls[i].pc = "settled",
            !.calls[i].result = r,
            !.calls[i].promise = CallerPromise(call, r)]

\* ----------------------------------------------------------- processQueue()

\* mutant: the filter keeps every entry
IsFreshAlways(item, t) == TRUE

\* mutant: the filter compares with the cleanup delay
IsFreshWrongBound(item, t) == t - item.addedTime < CleanupDelay

\* now - item.addedTime < 30000
IsFresh(item, t) == t - item.addedTime < StaleAge

\* this.queue.filter(item => now - item.addedTime < 30000)
FilterStale(c, t) ==
    LET Keep(item) == IsFresh(item, t)
        kept       == SelectSeq(c.queue, Keep)
        gone       == {c.queue[n].call : n \in {m \in DOMAIN c.queue : ~Keep(c.queue[m])}}
    IN  [c EXCEPT
            !.queue = kept,
            !.calls = [i \in DOMAIN c.calls |->
                          IF i \in gone THEN Released(c.calls[i], "stale")
                          ELSE c.calls[i]]]

\* mutant: this.queue.pop()
QueuePop(q) == [item |-> q[Len(q)], rest |-> SubSeq(q, 1, Len(q) - 1)]

\* this.queue.shift(): the oldest entry and what is left
QueueShift(q) == [item |-> Head(q), rest |-> Tail(q)]

\* while (queue.length > 0 && activeChecks.size < maxConcurrent) queue.shift().task()
RECURSIVE Drain(_, _)
Drain(c, t) ==
    IF Len(c.queue) > 0 /\ HasCapacity(c)
    THEN LET s == QueueShift(c.queue)
         IN  Drain(task([c EXCEPT !.queue = s.rest], s.item.call, t), t)
    ELSE c

processQueue(c, t) == Drain(FilterStale(c, t), t)

\* mutant: the setTimeout callback counts and drains but leaves the entry
cleanupNoDelete(c, i, t) ==
    processQueue([c EXCEPT
                     !.stats.totalCompleted = @ + 1,
                     !.calls[i] = Released(@, "done")], t)

\* the setTimeout callback: delete, count, drain
cleanup(c, i, t) ==
    LET call == c.calls[i]
        key  == TaskKey(call.url, call.keyTime)
    IN  processQueue([c EXCEPT
                         !.activeChecks = MapDelete(c.activeChecks, key),
                         !.stats.totalCompleted = @ + 1,
                         !.calls[i] = Released(@, "done")], t)

\* ------------------------------------------------------------ scheduleCheck

\* What a scheduleCheck call leaves behind: the closure `task` (url, taskKey),
\* the promise handed to the caller, and for the record how often the check
\* function was invoked, whether the call was queued and its rank among the
\* started tasks.
NewCall(url, fn, t) ==
    [url |-> url, keyTime |-> t, fn |-> fn, pc |-> "new", invoked |-> 0,
     queued |-> FALSE, order |-> 0, result |-> None, promise |-> None,
     probe |-> IdleProbe]

scheduleCheck(c, url, fn, t) ==
    LET c1 == IF NeedsReset(c, t) THEN reset(c, t) ELSE c
        i  == Len(c1.calls) + 1
        c2 == [c1 EXCEPT !.calls = Append(@, NewCall(url, fn, t))]
    IN  IF HasCapacity(c2)
        THEN task(c2, i, t)
        ELSE [c2 EXCEPT
                 !.queue = Append(@, [call |-> i, url |-> url, requestId |-> i,
                                      addedTime |-> t]),
                 !.calls[i].pc = "queued",
                 !.calls[i].queued = TRUE]

\* ------------------------------------------------------------------ actions

Install(c) ==
    /\ activeChecks' = c.activeChecks
    /\ queue' = c.queue
    /\ stats' = c.stats
    /\ calls' = c.calls

\* no sendNotification call has been made
NotifierIdle ==
    [pc |-> "idle", env |-> "-", type |-> "-", attempt |-> 0, fetches |-> 0,
     attempts |-> <<>>, sleeps |-> <<>>, fallbacks |-> 0, saves |-> <<>>, writes |-> <<>>,
     thrown |-> FALSE, outcome |-> "-"]

\* no extractVersionFromText call is under observation
ExtractionIdle == [pc |-> "idle", text |-> <<>>, version |-> <<>>]

Init ==
    /\ notifier = NotifierIdle
    /\ extraction = ExtractionIdle
    /\ now = 0
    /\ ticks = 0
    /\ resets = 0
    /\ config \in {[maxConcurrent |-> n] : n \in 1..MaxConcurrentBound}
    /\ activeChecks = EmptyMap
    /\ queue = <<>>
    /\ stats = FreshStats(0)
    /\ calls = <<>>
    /\ timers = <<>>

\* a caller invokes scheduleCheck(url, checkFn, requestId)
ScheduleCheck ==
    /\ Len(calls) < MaxCalls
    /\ \E url \in Urls : Install(scheduleCheck(Ctl, url, "raw", now))
    /\ UNCHANGED <<extraction, notifier, now, ticks, resets, config, timers>>

\* the check function of a running task returns a value or throws
Settle ==
    \E i \in DOMAIN calls :
        /\ calls[i].pc = "running"
        /\ calls[i].fn = "raw"
        /\ \E r \in {[kind |-> "value", v |-> x] : x \in Values}
                    \cup {[kind |-> "error", v |-> x] : x \in Errors} :
               Install(settle(Ctl, i, r, now))
        /\ timers' = Append(timers, [call |-> i, due |-> now + CleanupDelay])
        /\ UNCHANGED <<extraction, notifier, now, ticks, resets, config>>

\* the oldest cleanup timer fires
Cleanup ==
    /\ Len(timers) > 0
    /\ Head(timers).due <= now
    /\ Install(cleanup(Ctl, Head(timers).call, now))
    /\ timers' = Tail(timers)
    /\ UNCHANGED <<extraction, notifier, now, ticks, resets, config>>

\* someone calls controller.reset()
Reset ==
    /\ resets < MaxResets
    /\ Install(reset(Ctl, now))
    /\ resets' = resets + 1
    /\ UNCHANGED <<extraction, notifier, now, ticks, config, timers>>

\* time passes
Tick ==
    /\ ticks < MaxTicks
    /\ \E d \in Steps : now' = now + d
    /\ ticks' = ticks + 1
    /\ UNCHANGED <<extraction, notifier, resets, config, activeChecks, queue, stats, calls, timers>>

Next == ScheduleCheck \/ Settle \/ Cleanup \/ Reset \/ Tick

Spec == Init /\ [][Next]_vars

\* ------------------------------------------------- PriorityHealthCheck probes

\* calculateResponseTimeScore(responseTime, env) of utils.js: a pure function
\* of the elapsed time, left uninterpreted
calculateResponseTimeScore(rt) == <<"score", rt>>

\* ------------------------------------------------- text as character sequences

\* A JavaScript string is the sequence of its characters, each a one-character
\* string.
Digits == {"0", "1", "2", "3", "4", "5", "6", "7", "8", "9"}

LowerLetters == <<"a", "b", "c", "d", "e", "f", "g", "h", "i", "j", "k", "l", "m", "n", "o", "p", "q", "r", "s", "t", "u", "v", "w", "x", "y", "z">>

UpperLetters == <<"A", "B", "C", "D", "E", "F", "G", "H", "I", "J", "K", "L", "M", "N", "O", "P", "Q", "R", "S", "T", "U", "V", "W", "X", "Y", "Z">>

\* \w
WordChars == Digits \cup {"_"} \cup {LowerLetters[k] : k \in 1..26}
                 \cup {UpperLetters[k] : k \in 1..26}

\* \s, and what trim() removes
WhiteSpace == {" ", "\t", "\n"}

\* String.prototype.toLowerCase, character by character
LowerChar(ch) ==
    IF \E k \in 1..26 : UpperLetters[k] = ch
    THEN LowerLetters[CHOOSE k \in 1..26 : UpperLetters[k] = ch]
    ELSE ch

ToLowerCase(str) == [k \in 1..Len(str) |-> LowerChar(str[k])]

UpperChar(ch) ==
    IF \E k \in 1..26 : LowerLetters[k] = ch
    THEN UpperLetters[CHOOSE k \in 1..26 : LowerLetters[k] = ch]
    ELSE ch

\* String.prototype.trim
RECURSIVE TrimStart(_)
TrimStart(str) ==
    IF str # <<>> /\ Head(str) \in WhiteSpace THEN TrimStart(Tail(str)) ELSE str

RECURSIVE TrimEnd(_)
TrimEnd(str) ==
    IF str # <<>> /\ str[Len(str)] \in WhiteSpace
    THEN TrimEnd(SubSeq(str, 1, Len(str) - 1))
    ELSE str

Trim(str) == TrimEnd(TrimStart(str))

\* String.prototype.startsWith
StartsWith(str, prefix) ==
    Len(str) >= Len(prefix) /\ SubSeq(str, 1, Len(prefix)) = prefix

\* String.prototype.includes
Includes(str, part) ==
    \E k \in 1..(Len(str) - Len(part) + 1) : SubSeq(str, k, k + Len(part) - 1) = part

\* 'subconverter', the keyword of the patterns and the generic version
ServiceName == <<"s", "u", "b", "c", "o", "n", "v", "e", "r", "t", "e", "r">>

\* ---------------------------------------------------------- regular expressions

\* A pattern is a sequence of items: one character of a class, one or more
\* characters of a class (greedy), or an optional group (greedy).
One(cls) == [kind |-> "one", cls |-> cls, sub |-> <<>>]

Plus(cls) == [kind |-> "plus", cls |-> cls, sub |-> <<>>]

Optional(sub) == [kind |-> "opt", cls |-> {}, sub |-> sub]

\* a literal under the i flag, and a literal without it
LiteralI(str) == [k \in 1..Len(str) |-> One({LowerChar(str[k]), UpperChar(str[k])})]

\* how many characters of cls follow one another from position pos on
RECURSIVE RunLength(_, _, _)
RunLength(cls, str, pos) ==
    IF pos <= Len(str) /\ str[pos] \in cls THEN 1 + RunLength(cls, str, pos + 1) ELSE 0

\* The backtracking matcher: the position after the first match of pat that
\* starts at pos, in the order a greedy backtracking matcher tries them, or 0
\* when there is none.
RECURSIVE MatchFrom(_, _, _)
RECURSIVE TryCounts(_, _, _, _)
MatchFrom(pat, str, pos) ==
    IF pat = <<>> THEN pos
    ELSE LET item == Head(pat)
             rest == Tail(pat)
         IN  CASE item.kind = "one" ->
                    IF pos <= Len(str) /\ str[pos] \in item.cls
                    THEN MatchFrom(rest, str, pos + 1)
                    ELSE 0
               [] item.kind = "plus" ->
                    TryCounts(rest, str, pos, RunLength(item.cls, str, pos))
               [] item.kind = "opt" ->
                    LET taken == MatchFrom(item.sub \o rest, str, pos)
                    IN  IF taken # 0 THEN taken ELSE MatchFrom(rest, str, pos)

\* a greedy + that can take up to n characters: the longest first
TryCounts(rest, str, pos, n) ==
    IF n = 0 THEN 0
    ELSE LET end == MatchFrom(rest, str, pos + n)
         IN  IF end # 0 THEN end ELSE TryCounts(rest, str, pos, n - 1)

\* the start positions at which pat matches
MatchStarts(pat, str) == {pos \in 1..Len(str) : MatchFrom(pat, str, pos) # 0}

\* str.match(pattern)[1] for a pattern that is one capture group and has no g
\* flag: the leftmost match
Exec(pat, str) ==
    LET pos == CHOOSE p \in MatchStarts(pat, str) :
                   \A q \in MatchStarts(pat, str) : p <= q
    IN  SubSeq(str, pos, MatchFrom(pat, str, pos) - 1)

\* [\d]+\.[\d]+\.[\d]+
SemVer == <<Plus(Digits), One({"."}), Plus(Digits), One({"."}), Plus(Digits)>>

\* -[\w]+
BuildTag == <<One({"-"}), Plus(WordChars)>>

\* mutant: the standard format is tried before the full format
versionPatternsReordered ==
    << LiteralI(<<"v">>) \o SemVer \o BuildTag,
       LiteralI(ServiceName) \o <<Plus(WhiteSpace)>> \o LiteralI(<<"v">>) \o SemVer \o BuildTag
           \o <<Optional(<<Plus(WhiteSpace)>> \o LiteralI(<<"b", "a", "c", "k", "e", "n", "d">>))>>,
       LiteralI(ServiceName) \o <<Plus(WhiteSpace)>> \o LiteralI(<<"v">>) \o SemVer,
       SemVer \o BuildTag,
       SemVer,
       LiteralI(ServiceName) >>

\* const versionPatterns = [...]: the six patterns in the order of the array
versionPatterns ==
    << LiteralI(ServiceName) \o <<Plus(WhiteSpace)>> \o LiteralI(<<"v">>) \o SemVer \o BuildTag
           \o <<Optional(<<Plus(WhiteSpace)>> \o LiteralI(<<"b", "a", "c", "k", "e", "n", "d">>))>>,
       LiteralI(<<"v">>) \o SemVer \o BuildTag,
       LiteralI(ServiceName) \o <<Plus(WhiteSpace)>> \o LiteralI(<<"v">>) \o SemVer,
       SemVer \o BuildTag,
       SemVer,
       LiteralI(ServiceName) >>

\* the patterns that match somewhere in str, by their index in the array
MatchingPatterns(str) ==
    {k \in 1..Len(versionPatterns) : MatchStarts(versionPatterns[k], str) # {}}

\* the statements under "ensure a uniform format"
Normalize(version) ==
    IF Includes(ToLowerCase(version), ServiceName) THEN version
    ELSE IF StartsWith(version, <<"v">>) THEN ServiceName \o <<" ">> \o version
    ELSE IF version # <<>> /\ version[1] \in Digits THEN ServiceName \o <<" ", "v">> \o version
    ELSE version

\* text.split(/\s+/) of a trimmed text
RECURSIVE Split(_)
Split(str) ==
    IF str = <<>> THEN <<>>
    ELSE LET wordLen == CHOOSE k \in 0..Len(str) :
                            /\ \A j \in 1..k : str[j] \notin WhiteSpace
                            /\ k = Len(str) \/ str[k + 1] \in WhiteSpace
         IN  <<SubSeq(str, 1, wordLen)>>
                 \o Split(TrimStart(SubSeq(str, wordLen + 1, Len(str))))

\* word.includes('v') || /[\d]+\.[\d]+/.test(word)
LooksLikeVersion(word) ==
    \/ Includes(word, <<"v">>)
    \/ MatchStarts(<<Plus(Digits), One({"."}), Plus(Digits)>>, word) # {}

\* the part after the loop over the patterns, for a text no pattern matches
Unmatched(str) ==
    IF Len(str) <= 50 THEN (IF str = <<>> THEN ServiceName ELSE str)
    ELSE LET words == Split(str)
             hits  == {k \in 1..Len(words) :
                          LooksLikeVersion(words[k]) /\ Len(words[k]) <= 30}
         IN  IF hits = {} THEN ServiceName
             ELSE ServiceName \o <<" ">> \o words[CHOOSE k \in hits : \A j \in hits : k <= j]

\* this.extractVersionFromText(text) for a string
extractVersionFromText(text) ==
    IF text = <<>> THEN ServiceName
    ELSE LET str  == Trim(text)
             hits == MatchingPatterns(str)
         IN  IF hits # {}
             THEN LET first == CHOOSE k \in hits : \A j \in hits : k <= j
                  IN  Normalize(Trim(Exec(versionPatterns[first], str)))
             ELSE Unmatched(str)

Priority(fn) == IF fn = "priority" THEN "high" ELSE "normal"

\* this.extractVersionFromText(text) for each body response.text() can yield
VersionOfBody == [text \in Bodies |-> extractVersionFromText(text)]

\* status 200 and the body was read
ResultBodyRead(fn, p, text) ==
    [healthy |-> TRUE, responseTime |-> p.responseTime,
     responseTimeScore |-> calculateResponseTimeScore(p.responseTime),
     status |-> p.status, version |-> VersionOfBody[text],
     priority |-> Priority(fn), error |-> "unset"]

\* mutant: the fast check treats a failed body read as the full check does
ResultBodyFailedAlike(fn, p) ==
    [healthy |-> FALSE, responseTime |-> p.responseTime,
     responseTimeScore |-> calculateResponseTimeScore(p.responseTime),
     status |-> p.status, version |-> "unknown-version",
     priority |-> Priority(fn), error |-> "unset"]

\* status 200 and response.text() threw ("unknown-version" stands for the
\* sentinel string of the source, "subconverter" is its generic version)
ResultBodyFailed(fn, p) ==
    [healthy |-> (fn = "priority"), responseTime |-> p.responseTime,
     responseTimeScore |-> calculateResponseTimeScore(p.responseTime),
     status |-> p.status,
     version |-> IF fn = "priority" THEN "subconverter" ELSE "unknown-version",
     priority |-> Priority(fn), error |-> "unset"]

\* a status other than 200
ResultNot200(fn, p) ==
    [healthy |-> FALSE, responseTime |-> p.responseTime, responseTimeScore |-> 0,
     status |-> p.status, version |-> "unknown-version",
     priority |-> Priority(fn), error |-> "unset"]

\* mutant: error: error.message in place of error.name
ResultTransportErrorMessage(fn, name) ==
    [healthy |-> FALSE, responseTime |-> "null", responseTimeScore |-> 0,
     status |-> 0, version |-> "unknown-version",
     priority |-> Priority(fn), error |-> <<"message of", name>>]

\* fetch threw: a transport error, or the abort of the timeout
ResultTransportError(fn, name) ==
    [healthy |-> FALSE, responseTime |-> "null", responseTimeScore |-> 0,
     status |-> 0, version |-> "unknown-version",
     priority |-> Priority(fn), error |-> name]

\* the check function returns v: task() settles with that value and the
\* cleanup timer is set
ProbeReturns(i, p, v) ==
    /\ Install(settle([Ctl EXCEPT !.calls[i].probe = p], i,
                      [kind |-> "value", v |-> v], now))
    /\ timers' = Append(timers, [call |-> i, due |-> now + CleanupDelay])
    /\ UNCHANGED <<extraction, notifier, now, ticks, resets, config>>

\* a caller invokes priorityCheck(url, requestId)
PriorityCheck ==
    /\ Len(calls) < MaxProbes
    /\ \E url \in Urls : Install(scheduleCheck(Ctl, url, "priority", now))
    /\ UNCHANGED <<extraction, notifier, now, ticks, resets, config, timers>>

\* a caller invokes fullCheck(url, requestId)
FullCheck ==
    /\ Len(calls) < MaxProbes
    /\ \E url \in Urls : Install(scheduleCheck(Ctl, url, "full", now))
    /\ UNCHANGED <<extraction, notifier, now, ticks, resets, config, timers>>

\* fetch resolves with a response: the timer is cleared; a 200 goes on to read
\* the body, any other status returns at once
FetchResponds ==
    \E i \in DOMAIN calls : \E status \in Statuses :
        /\ calls[i].pc = "running"
        /\ calls[i].probe.stage = "fetch"
        /\ LET p == [calls[i].probe EXCEPT
                        !.responseTime = now - calls[i].probe.startTime,
                        !.status = status,
                        !.timerArmed = FALSE]
           IN  IF status = 200
               THEN /\ calls' = [calls EXCEPT ![i].probe = [p EXCEPT !.stage = "body"]]
                    /\ UNCHANGED <<extraction, notifier, now, ticks, resets, config, activeChecks,
                                   queue, stats, timers>>
               ELSE ProbeReturns(i, [p EXCEPT !.stage = "returned"],
                                 ResultNot200(calls[i].fn, p))

\* mutant: the catch block returns without clearTimeout(timeoutId)
FetchFailsNoClear ==
    \E i \in DOMAIN calls : \E name \in FetchErrors :
        /\ calls[i].pc = "running"
        /\ calls[i].probe.stage = "fetch"
        /\ ProbeReturns(i, [calls[i].probe EXCEPT !.stage = "returned",
                                                  !.caught = name],
                        ResultTransportError(calls[i].fn, name))

\* fetch rejects with a transport error: the catch clears the timer and returns
FetchFails ==
    \E i \in DOMAIN calls : \E name \in FetchErrors :
        /\ calls[i].pc = "running"
        /\ calls[i].probe.stage = "fetch"
        /\ ProbeReturns(i, [calls[i].probe EXCEPT !.stage = "returned",
                                                  !.timerArmed = FALSE,
                                                  !.caught = name],
                        ResultTransportError(calls[i].fn, name))

\* the timeout timer fires while the request is under way: controller.abort()
\* rejects fetch with an AbortError, which the catch turns into a result
FetchTimesOut ==
    \E i \in DOMAIN calls :
        /\ calls[i].pc = "running"
        /\ calls[i].probe.stage = "fetch"
        /\ calls[i].probe.timerArmed
        /\ calls[i].probe.timeoutAt <= now
        /\ ProbeReturns(i, [calls[i].probe EXCEPT !.stage = "returned",
                                                  !.timerArmed = FALSE,
                                                  !.caught = "AbortError"],
                        ResultTransportError(calls[i].fn, "AbortError"))

\* response.text() resolves with the body
BodyRead ==
    \E i \in DOMAIN calls : \E text \in Bodies :
        /\ calls[i].pc = "running"
        /\ calls[i].probe.stage = "body"
        /\ ProbeReturns(i, [calls[i].probe EXCEPT !.stage = "returned"],
                        ResultBodyRead(calls[i].fn, calls[i].probe, text))

\* response.text() rejects
BodyFails ==
    \E i \in DOMAIN calls :
        /\ calls[i].pc = "running"
        /\ calls[i].probe.stage = "body"
        /\ ProbeReturns(i, [calls[i].probe EXCEPT !.stage = "returned",
                                                  !.bodyFailed = TRUE],
                        ResultBodyFailed(calls[i].fn, calls[i].probe))

ProbeNext ==
    \/ PriorityCheck \/ FullCheck
    \/ FetchResponds \/ FetchFails \/ FetchTimesOut \/ BodyRead \/ BodyFails
    \/ Cleanup \/ Reset \/ Tick

ProbeSpec == Init /\ [][ProbeNext]_vars

\* ------------------------------------------------ ResilientTelegramNotifier

\* notificationData.type: the three configured types, one that is no property
\* of notificationSettings at all, and one that names a property the object
\* literal inherits from Object.prototype
NotificationTypes == {"request", "health_change", "error", "other", "toString"}

\* env as sendNotification reads it: the two credentials, the three
\* NOTIFY_ON_* settings as getConfig returns them, and the D1 binding (absent,
\* working, or failing on write)
Envs ==
    [botToken : BOOLEAN, chatId : BOOLEAN,
     request : BOOLEAN, health_change : BOOLEAN, error : BOOLEAN,
     db : {"absent", "ok", "failing"}]

\* how one pass of the try block ends: fetch rejects, the response is not ok,
\* response.json() rejects, the API answers ok: false, or the API answers ok: true
AttemptResults == {"fetchFails", "httpNotOk", "jsonFails", "apiNotOk", "ok"}

\* notificationSettings[notificationData.type]: the value of the setting, the
\* inherited function (truthy) for "toString", undefined (falsy) otherwise
TypeEnabled(env, type) ==
    CASE type = "request"       -> env.request
      [] type = "health_change" -> env.health_change
      [] type = "error"         -> env.error
      [] type = "toString"      -> TRUE
      [] OTHER                  -> FALSE

\* this.retryDelay * Math.pow(2, attempt - 1)
BackoffDelay(attempt) == RetryDelay * 2^(attempt - 1)

\* mutant: attempt <= this.maxRetries
RetriesLeftOffByOne(attempt) == attempt <= MaxRetries

\* attempt < this.maxRetries
RetriesLeft(attempt) == attempt < MaxRetries

\* mutant: saveNotificationToDB without its try / catch, a failing write
\* rejects the promise the caller awaits
saveNotificationToDBNoCatch(n, message, success) ==
    [n EXCEPT
        !.saves = Append(@, [success |-> success, message |-> message]),
        !.writes = IF n.env.db = "absent" THEN @
                   ELSE Append(@, [success |-> success, message |-> message,
                                   stored |-> (n.env.db = "ok"),
                                   fallbacksBefore |-> n.fallbacks]),
        !.thrown = (n.env.db = "failing")]

\* saveNotificationToDB(notificationData, requestId, message, success): with a
\* D1 binding one saveTelegramNotification write, whose failure is caught and
\* logged; each write is recorded with the number of fallback notifications
\* made before it
saveNotificationToDB(n, message, success) ==
    [n EXCEPT
        !.saves = Append(@, [success |-> success, message |-> message]),
        !.writes = IF n.env.db = "absent" THEN @
                   ELSE Append(@, [success |-> success, message |-> message,
                                   stored |-> (n.env.db = "ok"),
                                   fallbacksBefore |-> n.fallbacks])]

\* mutant: the fallback also records the notification in the durable store
fallbackNotificationAlsoSaves(n) ==
    saveNotificationToDB([n EXCEPT !.fallbacks = @ + 1], "fallback", FALSE)

\* fallbackNotification(notificationData, requestId): logs the payload
fallbackNotification(n) == [n EXCEPT !.fallbacks = @ + 1]

\* mutant: the success branch saves but does not return, and the loop goes on
attemptSucceededNoReturn(n) ==
    LET n1 == saveNotificationToDB(n, "message", TRUE)
    IN  IF n.attempt < MaxRetries
        THEN [n1 EXCEPT !.attempt = @ + 1, !.fetches = @ + 1]
        ELSE [n1 EXCEPT !.pc = "returned", !.outcome = "undefined"]

\* the catch block with error.message = err; an error thrown inside the catch
\* block (n.thrown after an awaited call) rejects the promise of
\* sendNotification
attemptFailed(n, err) ==
    IF RetriesLeft(n.attempt)
    THEN [n EXCEPT !.pc = "sleeping",
                   !.sleeps = Append(@, BackoffDelay(n.attempt))]
    ELSE LET n1 == IF FallbackEnabled THEN fallbackNotification(n) ELSE n
             n2 == saveNotificationToDB(n1, <<"send failed", err>>, FALSE)
         IN  IF n2.thrown
             THEN [n2 EXCEPT !.pc = "rejected", !.outcome = "rejected"]
             ELSE [n2 EXCEPT
                      !.pc = "returned",
                      !.outcome = [success |-> FALSE, attempt |-> n.attempt,
                                   error |-> err, usedFallback |-> FallbackEnabled]]

\* result.ok: the success record is saved and the call returns; the await of
\* the save is inside the try block, so an error it threw would be handled by
\* the catch block like a failed delivery
attemptSucceeded(n) ==
    LET n1 == saveNotificationToDB(n, "message", TRUE)
    IN  IF n1.thrown
        THEN attemptFailed([n1 EXCEPT !.thrown = FALSE], "save failed")
        ELSE [n1 EXCEPT
                 !.pc = "returned",
                 !.outcome = [success |-> TRUE, attempt |-> n.attempt]]

\* mutant: the type gate is evaluated before the credential gate
sendNotificationTypeFirst(env, type) ==
    LET n == [NotifierIdle EXCEPT !.env = env, !.type = type]
    IN  IF ~TypeEnabled(env, type)
        THEN [n EXCEPT !.pc = "returned",
                       !.outcome = [success |-> FALSE, reason |-> "type disabled"]]
        ELSE IF ~env.botToken \/ ~env.chatId
        THEN [n EXCEPT !.pc = "returned",
                       !.outcome = [success |-> FALSE, reason |-> "incomplete config"]]
        ELSE [n EXCEPT !.pc = "delivering", !.attempt = 1, !.fetches = 1]

\* sendNotification up to the first await: the two gates, then the first pass
\* of the loop calls fetch
sendNotification(env, type) ==
    LET n == [NotifierIdle EXCEPT !.env = env, !.type = type]
    IN  IF ~env.botToken \/ ~env.chatId
        THEN [n EXCEPT !.pc = "returned",
                       !.outcome = [success |-> FALSE, reason |-> "incomplete config"]]
        ELSE IF ~TypeEnabled(env, type)
        THEN [n EXCEPT !.pc = "returned",
                       !.outcome = [success |-> FALSE, reason |-> "type disabled"]]
        ELSE [n EXCEPT !.pc = "delivering", !.attempt = 1, !.fetches = 1]

\* a caller invokes sendNotification(notificationData, requestId, ctx)
SendNotification ==
    /\ notifier.pc = "idle"
    /\ \E env \in Envs : \E type \in NotificationTypes :
           notifier' = sendNotification(env, type)
    /\ UNCHANGED <<ctlVars, extraction>>

\* one pass of the try block runs to its end
Attempt ==
    /\ notifier.pc = "delivering"
    /\ \E r \in AttemptResults :
           LET n == [notifier EXCEPT !.attempts = Append(@, r)]
           IN  notifier' = IF r = "ok" THEN attemptSucceeded(n)
                           ELSE attemptFailed(n, r)
    /\ UNCHANGED <<ctlVars, extraction>>

\* the backoff sleep ends and the loop goes on with attempt + 1: the next
\* pass calls fetch
Wake ==
    /\ notifier.pc = "sleeping"
    /\ notifier' = [notifier EXCEPT !.pc = "delivering", !.attempt = @ + 1,
                                    !.fetches = @ + 1]
    /\ UNCHANGED <<ctlVars, extraction>>

NotifierNext == SendNotification \/ Attempt \/ Wake

NotifierSpec == Init /\ [][NotifierNext]_vars

\* ---------------------------------------------------- texts to extract from

\* a text is made of at most this many pieces
MaxPieces == 3

\* the pieces the texts are made of
Pieces ==
    { ServiceName, <<"S", "u", "b", "c", "o", "n", "v", "e", "r", "t", "e", "r">>, <<" ">>, <<"v">>, <<"V">>,
      <<"0", ".", "9", ".", "9">>, <<"-", "7", "5", "4", "4", "2", "4", "6">>, <<"b", "a", "c", "k", "e", "n", "d">>, <<"h", "e", "l", "l", "o">>, <<"1", ".">>, <<"_", "x">> }

RECURSIVE TextsOf(_)
TextsOf(n) ==
    IF n = 0 THEN {<<>>}
    ELSE LET shorter == TextsOf(n - 1)
         IN  shorter \cup {t \o piece : t \in shorter, piece \in Pieces}

\* texts of more than 50 characters that no pattern matches
LongTexts ==
    { <<"t", "h", "e", " ", "b", "a", "c", "k", "e", "n", "d", " ", "a", "t", " ", "t", "h", "i", "s", " ", "a", "d", "d", "r", "e", "s", "s", " ", "a", "n", "s", "w", "e", "r", "e", "d", " ", "w", "i", "t", "h", " ", "a", " ", "p", "a", "g", "e", " ", "t", "h", "a", "t", " ", "h", "a", "s", " ", "n", "o", " ", "r", "e", "l", "e", "a", "s", "e", " ", "i", "n", "f", "o", "r", "m", "a", "t", "i", "o", "n">>,
      <<"t", "h", "e", " ", "b", "a", "c", "k", "e", "n", "d", " ", "a", "t", " ", "t", "h", "i", "s", " ", "a", "d", "d", "r", "e", "s", "s", " ", "a", "n", "s", "w", "e", "r", "e", "d", " ", "w", "i", "t", "h", " ", "r", "e", "l", "e", "a", "s", "e", " ", "1", "2", ".", "5", " ", "o", "f", " ", "a", "n", " ", "u", "n", "n", "a", "m", "e", "d", " ", "p", "r", "o", "g", "r", "a", "m", "!", "!">>,
      <<"n", "o", "t", "h", "i", "n", "g", "!", " ", "t", "o", "!", " ", "s", "e", "e", "!", " ", "i", "n", "!", " ", "t", "h", "i", "s", "!", " ", "l", "o", "n", "g", "!", " ", "r", "e", "p", "l", "y", "!", " ", "f", "r", "o", "m", "!", " ", "a", "!", " ", "p", "r", "o", "x", "y", "!", " ", "i", "n", "!", " ", "f", "r", "o", "n", "t", "!">>,
      <<"a", "-", "w", "o", "r", "d", "-", "w", "i", "t", "h", "-", "a", "-", "v", "-", "i", "n", "-", "i", "t", "-", "t", "h", "a", "t", "-", "i", "s", "-", "l", "o", "n", "g", "e", "r", "-", "t", "h", "a", "n", "-", "t", "h", "i", "r", "t", "y", "-", "c", "h", "a", "r", "a", "c", "t", "e", "r", "s", " ", "a", "n", "d", " ", "t", "h", "e", "n", " ", "b", "u", "i", "l", "d", " ", "v", "7", " ", "o", "f", " ", "i", "t">> }

\* the arguments extractVersionFromText is called with
Texts ==
    TextsOf(MaxPieces) \cup LongTexts
        \cup { FullBanner, <<"v", "0", ".", "9", ".", "9", "-", "7", "5", "4", "4", "2", "4", "6">>, <<"0", ".", "9", ".", "9">>, <<"h", "e", "l", "l", "o", " ", "w", "o", "r", "l", "d">> }

\* ------------------------------------------------ extractVersionFromText calls

\* the caller holds a text
ExtractInit ==
    /\ notifier = NotifierIdle
    /\ extraction \in {[pc |-> "called", text |-> t, version |-> <<>>] : t \in Texts}
    /\ now = 0
    /\ ticks = 0
    /\ resets = 0
    /\ config = [maxConcurrent |-> 1]
    /\ activeChecks = EmptyMap
    /\ queue = <<>>
    /\ stats = FreshStats(0)
    /\ calls = <<>>
    /\ timers = <<>>

\* extractVersionFromText(text) returns
ExtractVersion ==
    /\ extraction.pc = "called"
    /\ extraction' = [extraction EXCEPT
                          !.pc = "returned",
                          !.version = extractVersionFromText(extraction.text)]
    /\ UNCHANGED <<ctlVars, notifier>>

ExtractNext == ExtractVersion

ExtractSpec == ExtractInit /\ [][ExtractNext]_vars

\* ------------------------------------------------------------- step kinds

\* which operation a step of the controller is, read off the variables
IsScheduleStep == Len(calls') = Len(calls) + 1
IsSettleStep   == Len(timers') = Len(timers) + 1
IsCleanupStep  == Len(timers) > 0 /\ timers' = Tail(timers)
IsResetStep    == resets' = resets + 1
IsLazyResetStep == IsScheduleStep /\ now - stats.lastResetTime > 300000

CallIds == DOMAIN calls

\* check functions started and not yet settled
Executing == {i \in CallIds : calls[i].pc = "running"}

\* ------------------------------------------------------------------ claims

\* C1 (admission bound): the number of check functions that have been started
\* and have not yet settled never exceeds config.maxConcurrent.
C1_AdmissionBound == Cardinality(Executing) <= config.maxConcurrent

\* C2 (stats monotonicity): totalCompleted <= totalStarted after every step,
\* and a step that is not a reset never decreases totalStarted.
C2_StatsMonotone ==
    [][ /\ stats'.totalCompleted <= stats'.totalStarted
        /\ ~(IsResetStep \/ IsLazyResetStep)
              => stats'.totalStarted >= stats.totalStarted ]_vars

\* C3 (FIFO within the queue): of two calls that were both queued, the later
\* one is never started while the earlier one is still waiting, and when both
\* are started the earlier one is started first; an earlier call that was
\* dropped as stale or removed by a reset is exempt.
C3_QueueFifo ==
    \A i, j \in CallIds :
        (i < j /\ calls[i].queued /\ calls[j].queued /\ calls[j].invoked > 0)
            => \/ calls[i].pc \in {"stale", "cleared"}
               \/ (calls[i].invoked > 0 /\ calls[i].order < calls[j].order)

\* two calls that waited in the queue together have both been started by the drain
C3_Witness ==
    \E i, j \in CallIds :
        /\ i < j /\ calls[i].queued /\ calls[j].queued
        /\ calls[i].invoked > 0 /\ calls[j].invoked > 0
        /\ calls[i].order < calls[j].order

\* C4 (staleness drop): when processQueue runs, every queue entry older than
\* 30 s is removed, its check function is not invoked and its promise stays
\* pending from then on; the entries younger than 30 s are kept in their
\* order: the drain starts a prefix of them and the rest is the new queue.
C4_StalenessDrop ==
    [][ /\ IsCleanupStep =>
            LET Young(item) == now - item.addedTime < 30000
                young == SelectSeq(queue, Young)
            IN  /\ \A n \in DOMAIN queue :
                       now - queue[n].addedTime > 30000 =>
                           /\ \A m \in DOMAIN queue' : queue'[m].call # queue[n].call
                           /\ calls'[queue[n].call].invoked = 0
                           /\ calls'[queue[n].call].promise = None
                           /\ calls'[queue[n].call].pc = "stale"
                /\ \E k \in 0..Len(young) :
                       /\ queue' = SubSeq(young, k + 1, Len(young))
                       /\ \A m \in 1..k : calls'[young[m].call].pc = "running"
        /\ \A i \in CallIds : calls[i].pc = "stale" => calls'[i] = calls[i]
      ]_vars

\* a stale entry was dropped by a drain that kept a younger one
C4_Witness ==
    \E i, j \in CallIds :
        /\ calls[i].pc = "stale" /\ calls[i].invoked = 0 /\ calls[i].promise = None
        /\ i < j /\ calls[j].queued /\ calls[j].pc = "running"

\* C5 (lazy reset): a scheduleCheck call made more than 5 minutes after
\* stats.lastResetTime resets the counters and stamps lastResetTime before it
\* is admitted, so that afterwards totalStarted = 1; a call within the window
\* resets nothing.
C5_LazyReset ==
    [][ IsScheduleStep =>
            LET i == Len(calls')
            IN  IF now - stats.lastResetTime > 300000
                THEN /\ stats'.lastResetTime = now
                     /\ stats'.totalCompleted = 0
                     /\ stats'.errors = 0
                     /\ stats'.successes = 0
                     /\ calls'[i].pc = "running"
                     /\ stats'.totalStarted = 1
                     /\ stats'.maxActive = 1
                     /\ queue' = <<>>
                ELSE /\ stats'.lastResetTime = stats.lastResetTime
                     /\ stats'.totalCompleted = stats.totalCompleted
                     /\ stats'.errors = stats.errors
                     /\ stats'.successes = stats.successes
                     /\ stats'.totalStarted =
                            stats.totalStarted + (IF calls'[i].pc = "running" THEN 1 ELSE 0)
                     /\ stats'.maxActive >= stats.maxActive
                     /\ Len(queue') >= Len(queue)
                     /\ DOMAIN activeChecks \subseteq DOMAIN activeChecks'
      ]_vars

\* a call arrived after the window, with counters that had moved, and was admitted
C5_Witness ==
    /\ resets = 0
    /\ stats.lastResetTime > 0
    /\ stats.totalStarted = 1
    /\ Len(calls) >= 2
    /\ calls[Len(calls)].pc = "running"

\* C6 as stated: a waiting entry leaves the queue only by being popped and run
\* by the drain or by being discarded as stale by the drain.
C6_OnlyDrainRemoves ==
    [][ \A n \in DOMAIN queue :
            (\A m \in DOMAIN queue' : queue'[m].call # queue[n].call) =>
                /\ IsCleanupStep
                /\ \/ calls'[queue[n].call].invoked = 1
                   \/ now - queue[n].addedTime >= 30000
      ]_vars

\* C6 amended: a waiting entry leaves the queue in one of three ways: popped
\* and run by the drain while capacity is available, discarded by the drain
\* because its age has reached 30 s, or removed by a reset (reset() itself or
\* the lazy reset of scheduleCheck), which empties the queue.
C6_QueueEntryLifecycle ==
    [][ \A n \in DOMAIN queue :
            (\A m \in DOMAIN queue' : queue'[m].call # queue[n].call) =>
                \/ /\ IsCleanupStep
                   /\ now - queue[n].addedTime < 30000
                   /\ calls'[queue[n].call].invoked = 1
                   /\ calls'[queue[n].call].pc = "running"
                   /\ MapSize(activeChecks') <= config.maxConcurrent
                \/ /\ IsCleanupStep
                   /\ now - queue[n].addedTime >= 30000
                   /\ calls'[queue[n].call].invoked = 0
                \/ /\ IsResetStep \/ IsLazyResetStep
                   /\ stats'.lastResetTime = now
                   /\ calls'[queue[n].call].invoked = 0
                   /\ \A m \in DOMAIN queue' : queue'[m].call > Len(calls)
      ]_vars

\* one waiting entry was removed by a reset and another was popped and run by
\* the drain
C6_Witness ==
    /\ \E i \in CallIds : calls[i].pc = "cleared"
    /\ \E i \in CallIds : calls[i].queued /\ calls[i].invoked = 1

\* C7 (a probe caller always receives a result), as what a finite run must
\* show: once no probe is running or waiting in the queue any more, every
\* priorityCheck / fullCheck caller holds a HealthCheckResult.
C7_CallerGetsResult ==
    (\A i \in CallIds : calls[i].pc \notin {"queued", "running"})
        => \A i \in CallIds : calls[i].promise.kind = "value"

\* C8 (transparent propagation, no retry): the check function of a call is
\* invoked at most once; when it settles the caller's promise settles with the
\* same value or error, successes or errors moves by one and the entry is
\* marked completed/true or failed/false with the error message; a promise
\* settles only then, and only once.
C8_Propagation ==
    [][ /\ \A i \in DOMAIN calls' : calls'[i].invoked <= 1
        /\ \A i \in CallIds :
              (calls[i].pc = "running" /\ calls'[i].pc = "settled") =>
                  LET r   == calls'[i].result
                      key == <<calls[i].url, calls[i].keyTime>>
                  IN  /\ r.kind \in {"value", "error"}
                      /\ calls'[i].promise = r
                      /\ key \in DOMAIN activeChecks'
                      /\ r.kind = "value" =>
                            /\ stats'.successes = stats.successes + 1
                            /\ stats'.errors = stats.errors
                            /\ activeChecks'[key].status = "completed"
                            /\ activeChecks'[key].success = "true"
                      /\ r.kind = "error" =>
                            /\ stats'.errors = stats.errors + 1
                            /\ stats'.successes = stats.successes
                            /\ activeChecks'[key].status = "failed"
                            /\ activeChecks'[key].success = "false"
                            /\ activeChecks'[key].error = r.v
        /\ \A i \in CallIds :
              calls'[i].promise # calls[i].promise =>
                  calls[i].promise = None /\ calls[i].pc = "running"
      ]_vars

\* a call that was queued and then drained has rejected its caller's promise
\* with the error of its check function
C8_Witness ==
    \E i \in CallIds :
        /\ calls[i].queued /\ calls[i].pc = "settled"
        /\ calls[i].promise.kind = "error"
        /\ \E j \in CallIds : ~calls[j].queued /\ calls[j].promise.kind = "value"

\* C9 (retry/backoff count): a call that passed the gates and whose every
\* delivery attempt failed has made exactly 3 delivery attempts and slept
\* exactly twice, 1000 ms and then 2000 ms, and returns success = false,
\* attempt = 3, usedFallback = true.
C9_RetryBackoff ==
    (/\ notifier.pc = "returned"
     /\ notifier.attempt >= 1
     /\ \A k \in DOMAIN notifier.attempts : notifier.attempts[k] # "ok")
        => /\ Len(notifier.attempts) = 3
           /\ notifier.fetches = 3
           /\ notifier.sleeps = <<1000, 2000>>
           /\ notifier.outcome.success = FALSE
           /\ notifier.outcome.attempt = 3
           /\ notifier.outcome.usedFallback = TRUE
           /\ notifier.fallbacks = 1

\* three failed deliveries of different kinds, then the failure outcome
C9_Witness ==
    /\ notifier.pc = "returned"
    /\ notifier.attempts = <<"fetchFails", "httpNotOk", "apiNotOk">>
    /\ notifier.outcome.success = FALSE

\* C10 (first success stops the loop): if attempt k is the first to succeed,
\* the call has made exactly k delivery attempts, saved one success record,
\* not used the fallback and returns success = true, attempt = k; at no time
\* is there an attempt after a successful one.
C10_FirstSuccessStops ==
    /\ \A k \in DOMAIN notifier.attempts :
           notifier.attempts[k] = "ok" =>
               /\ k = Len(notifier.attempts)
               /\ k <= 3
               /\ notifier.fetches = k
               /\ notifier.pc = "returned"
               /\ notifier.outcome = [success |-> TRUE, attempt |-> k]
               /\ Len(notifier.saves) = 1
               /\ notifier.saves[1].success = TRUE
               /\ notifier.env.db # "absent" =>
                      /\ Len(notifier.writes) = 1
                      /\ notifier.writes[1].success = TRUE
               /\ notifier.fallbacks = 0
               /\ Len(notifier.sleeps) = k - 1
    /\ (notifier.pc = "returned" /\ notifier.attempt >= 1
            /\ notifier.outcome.success = TRUE)
           => notifier.attempts[Len(notifier.attempts)] = "ok"

\* the third attempt succeeded after two failures
C10_Witness ==
    /\ notifier.pc = "returned"
    /\ notifier.attempts = <<"httpNotOk", "fetchFails", "ok">>
    /\ notifier.outcome = [success |-> TRUE, attempt |-> 3]

\* C11 (one persistence write per terminal outcome): with a durable store
\* configured, a call that reached the retry loop has written nothing while it
\* is still attempting or sleeping, and has made exactly one
\* saveTelegramNotification write when it returns: a success = true record on
\* success, and on exhaustion a success = false record made after the one
\* fallback notification, which itself wrote nothing.
C11_OneWritePerOutcome ==
    (notifier.attempt >= 1 /\ notifier.env.db # "absent") =>
        /\ notifier.pc \in {"delivering", "sleeping"} => notifier.writes = <<>>
        /\ notifier.pc = "returned" =>
               /\ Len(notifier.writes) = 1
               /\ notifier.writes[1].success = notifier.outcome.success
               /\ notifier.outcome.success = TRUE =>
                      /\ notifier.fallbacks = 0
                      /\ notifier.writes[1].fallbacksBefore = 0
               /\ notifier.outcome.success = FALSE =>
                      /\ Len(notifier.attempts) = 3
                      /\ notifier.fallbacks = 1
                      /\ notifier.writes[1].fallbacksBefore = 1

\* the retries were exhausted with a working store: one failure record,
\* written after the fallback
C11_Witness ==
    /\ notifier.pc = "returned"
    /\ notifier.env.db = "ok"
    /\ Len(notifier.attempts) = 3
    /\ notifier.outcome.success = FALSE
    /\ notifier.fallbacks = 1
    /\ Len(notifier.writes) = 1
    /\ notifier.writes[1].success = FALSE

\* C12 (config gating): a call made without the bot token or without the chat
\* id returns success = false with the reason "incomplete config", also when
\* the type of its payload is disabled; a call with both credentials whose
\* payload type has its flag off returns success = false with the reason
\* "type disabled"; either way it makes no delivery call, no retry and sleeps
\* not at all.
C12_ConfigGating ==
    LET env   == notifier.env
        type  == notifier.type
        flagOff == \/ type = "request" /\ ~env.request
                   \/ type = "health_change" /\ ~env.health_change
                   \/ type = "error" /\ ~env.error
        quiet == /\ notifier.pc = "returned"
                 /\ notifier.fetches = 0
                 /\ notifier.attempt = 0
                 /\ notifier.attempts = <<>>
                 /\ notifier.sleeps = <<>>
    IN  notifier.pc # "idle" =>
            /\ (~env.botToken \/ ~env.chatId) =>
                   /\ quiet
                   /\ notifier.outcome = [success |-> FALSE, reason |-> "incomplete config"]
            /\ (env.botToken /\ env.chatId /\ flagOff) =>
                   /\ quiet
                   /\ notifier.outcome = [success |-> FALSE, reason |-> "type disabled"]

\* a call without the bot token and with a disabled payload type was answered
\* by the credential gate
C12_Witness ==
    /\ notifier.pc = "returned"
    /\ ~notifier.env.botToken
    /\ notifier.type = "error" /\ ~notifier.env.error
    /\ notifier.outcome.reason = "incomplete config"
    /\ notifier.fetches = 0

\* C13 (notification failures are never thrown): sendNotification never
\* rejects; a call that reached the retry loop returns an Outcome fixed by its
\* delivery attempts alone, success = true with the attempt number if the last
\* attempt succeeded, and otherwise success = false, attempt = 3, the last
\* error and usedFallback = true, whether the durable store is absent, working
\* or failing on write.
C13_NeverThrown ==
    /\ notifier.pc # "rejected"
    /\ (notifier.pc = "returned" /\ notifier.attempt >= 1) =>
           LET k == Len(notifier.attempts)
           IN  /\ k \in 1..3
               /\ notifier.outcome =
                      IF notifier.attempts[k] = "ok"
                      THEN [success |-> TRUE, attempt |-> k]
                      ELSE [success |-> FALSE, attempt |-> 3,
                            error |-> notifier.attempts[k], usedFallback |-> TRUE]
    /\ (notifier.pc = "returned" /\ notifier.attempt = 0) =>
           notifier.outcome.success = FALSE

\* every kind of delivery failure, the fallback and a failing store write
\* together, and the call still returned its Outcome
C13_Witness ==
    /\ notifier.pc = "returned"
    /\ notifier.env.db = "failing"
    /\ notifier.attempts = <<"fetchFails", "httpNotOk", "apiNotOk">>
    /\ notifier.fallbacks = 1
    /\ Len(notifier.writes) = 1 /\ notifier.writes[1].stored = FALSE
    /\ notifier.outcome = [success |-> FALSE, attempt |-> 3,
                           error |-> "apiNotOk", usedFallback |-> TRUE]

\* C14 (fast vs. full asymmetry): a probe that received status 200 and whose
\* body read failed returns, as priorityCheck, healthy = true with the generic
\* version and priority high, and, as fullCheck, healthy = false with the
\* unknown-version sentinel and priority normal; either way status = 200 and
\* responseTime is the measured time.
C14_FastFullAsymmetry ==
    \A i \in CallIds :
        (calls[i].pc = "settled" /\ calls[i].probe.bodyFailed) =>
            LET v == calls[i].result.v
            IN  /\ calls[i].result.kind = "value"
                /\ calls[i].promise = calls[i].result
                /\ v.status = 200
                /\ v.responseTime \in Nat
                /\ v.responseTime = calls[i].probe.responseTime
                /\ v.error = "unset"
                /\ calls[i].fn = "priority" =>
                       /\ v.healthy = TRUE
                       /\ v.version = "subconverter"
                       /\ v.priority = "high"
                /\ calls[i].fn = "full" =>
                       /\ v.healthy = FALSE
                       /\ v.version = "unknown-version"
                       /\ v.priority = "normal"

\* a fast and a full probe both got a 200 and failed to read the body
C14_Witness ==
    \E i, j \in CallIds :
        /\ calls[i].fn = "priority" /\ calls[j].fn = "full"
        /\ calls[i].pc = "settled" /\ calls[j].pc = "settled"
        /\ calls[i].probe.bodyFailed /\ calls[j].probe.bodyFailed
        /\ calls[i].result.v.healthy /\ ~calls[j].result.v.healthy

\* C15 (probe transport errors become results): when the request of a probe
\* fails or is aborted by its timeout, the check function returns a result
\* with healthy = false, status = 0, responseTimeScore = 0, responseTime =
\* null and error = the name of the transport error; the controller counts the
\* task as a success and marks its entry completed, errors does not move, and
\* an abort happens only once the timeout of the mode has elapsed.
C15_TransportErrorResult ==
    [][ \A i \in CallIds :
            (calls[i].pc = "running" /\ calls'[i].pc = "settled"
                /\ calls'[i].probe.caught # "none") =>
                LET v   == calls'[i].result.v
                    key == <<calls[i].url, calls[i].keyTime>>
                IN  /\ calls'[i].result.kind = "value"
                    /\ calls'[i].promise = calls'[i].result
                    /\ v.healthy = FALSE
                    /\ v.status = 0
                    /\ v.responseTimeScore = 0
                    /\ v.responseTime = "null"
                    /\ v.error = calls'[i].probe.caught
                    /\ v.priority = (IF calls[i].fn = "priority" THEN "high" ELSE "normal")
                    /\ stats'.successes = stats.successes + 1
                    /\ stats'.errors = stats.errors
                    /\ stats'.errors = 0
                    /\ activeChecks'[key].status = "completed"
                    /\ activeChecks'[key].success = "true"
                    /\ v.error = "AbortError" =>
                           now - calls[i].probe.startTime >=
                               (IF calls[i].fn = "priority" THEN 800 ELSE 2000)
      ]_vars

\* a probe was aborted by its timeout, another failed in transport, and both
\* were counted as successes
C15_Witness ==
    \E i, j \in CallIds :
        /\ calls[i].pc = "settled" /\ calls[i].probe.caught = "AbortError"
        /\ calls[j].pc = "settled" /\ calls[j].probe.caught = "TypeError"
        /\ stats.successes = 2 /\ stats.errors = 0

\* C16 (version extraction): the first of the six patterns, in the order of
\* the array, that matches the trimmed text decides, and its leftmost match is
\* normalized: kept if it contains the service name, prefixed with
\* 'subconverter ' if it starts with 'v', with 'subconverter v' if it starts
\* with a digit, kept otherwise; a text of at most 50 characters that no
\* pattern matches is returned trimmed, or as the generic 'subconverter' when
\* nothing is left.  So 'subconverter v0.9.9-7544246 backend' maps to itself,
\* 'v0.9.9-7544246' to 'subconverter v0.9.9-7544246', '0.9.9' to
\* 'subconverter v0.9.9', '' to 'subconverter' and 'hello world' to itself.
C16_VersionExtraction ==
    extraction.pc = "returned" =>
        LET text    == extraction.text
            version == extraction.version
            str     == Trim(text)
            hits    == MatchingPatterns(str)
        IN  /\ text = <<"s", "u", "b", "c", "o", "n", "v", "e", "r", "t", "e", "r", " ", "v", "0", ".", "9", ".", "9", "-", "7", "5", "4", "4", "2", "4", "6", " ", "b", "a", "c", "k", "e", "n", "d">> => version = text
            /\ text = <<"v", "0", ".", "9", ".", "9", "-", "7", "5", "4", "4", "2", "4", "6">> => version = <<"s", "u", "b", "c", "o", "n", "v", "e", "r", "t", "e", "r", " ", "v", "0", ".", "9", ".", "9", "-", "7", "5", "4", "4", "2", "4", "6">>
            /\ text = <<"0", ".", "9", ".", "9">> => version = <<"s", "u", "b", "c", "o", "n", "v", "e", "r", "t", "e", "r", " ", "v", "0", ".", "9", ".", "9">>
            /\ text = <<>> => version = <<"s", "u", "b", "c", "o", "n", "v", "e", "r", "t", "e", "r">>
            /\ text = <<"h", "e", "l", "l", "o", " ", "w", "o", "r", "l", "d">> => version = text
            /\ hits # {} =>
                   \E k \in hits :
                       /\ \A j \in hits : k <= j
                       /\ LET m == Exec(versionPatterns[k], str)
                          IN  version =
                                  IF Includes(ToLowerCase(m), ServiceName) THEN m
                                  ELSE IF m[1] = "v" THEN ServiceName \o <<" ">> \o m
                                  ELSE IF m[1] \in Digits THEN ServiceName \o <<" ", "v">> \o m
                                  ELSE m
            /\ (hits = {} /\ Len(str) <= 50) =>
                   version = (IF str = <<>> THEN ServiceName ELSE str)

\* the full banner, which all six patterns match, was returned unchanged
C16_Witness ==
    /\ extraction.pc = "returned"
    /\ extraction.text = FullBanner
    /\ extraction.version = FullBanner
    /\ MatchingPatterns(extraction.text) = 1..6

\* C17 (active-task count bound): in every reachable state the active set
\* holds at most config.maxConcurrent entries.
C17_ActiveSetBound == MapSize(activeChecks) <= config.maxConcurrent

\* C18 (deferred cleanup): from the moment its check function settles until
\* its cleanup fires, 100 ms later or more, the entry of a task is in the
\* active set with a terminal status; a scheduleCheck call arriving while the
\* active set holds maxConcurrent entries, terminal ones included, is queued
\* and not started; the cleanup removes the entry, increments totalCompleted
\* and drains the queue in one step.
C18_DeferredCleanup ==
    [][ /\ \A i \in DOMAIN calls' :
               calls'[i].pc = "settled" =>
                   LET key == <<calls'[i].url, calls'[i].keyTime>>
                   IN  /\ key \in DOMAIN activeChecks'
                       /\ activeChecks'[key].status \in {"completed", "failed"}
        /\ (IsScheduleStep /\ MapSize(activeChecks) >= config.maxConcurrent) =>
               /\ calls'[Len(calls')].pc = "queued"
               /\ calls'[Len(calls')].invoked = 0
        /\ IsCleanupStep =>
               LET i   == Head(timers).call
                   key == <<calls[i].url, calls[i].keyTime>>
               IN  /\ now >= Head(timers).due
                   /\ calls[i].pc = "settled" /\ calls'[i].pc = "done"
                   /\ stats'.totalCompleted = stats.totalCompleted + 1
                   /\ \/ key \notin DOMAIN activeChecks'
                      \/ activeChecks'[key].status = "running"
                   /\ \/ queue' = <<>>
                      \/ MapSize(activeChecks') >= config.maxConcurrent
      ]_vars

\* C19 (overtaking is possible) says that some execution exists, which no
\* formula over all behaviours states.  What holds of every behaviour is the
\* opposite: while an entry waits in the queue the active set is full, and a
\* scheduleCheck call that is started at once leaves no entry waiting that
\* was submitted before it.
NoOvertaking ==
    [][ /\ Len(queue') > 0 => MapSize(activeChecks') >= config.maxConcurrent
        /\ (IsScheduleStep /\ calls'[Len(calls')].pc = "running") => queue' = <<>>
      ]_vars

\* C20 (maxActive is the high-water mark): after every step stats.maxActive
\* is the largest size the active set has had since the last reset, that is
\* the larger of its value before the step and the size after it (the size
\* after it when the step resets), and so at least the current size.
C20_MaxActiveHighWater ==
    [][ /\ stats'.maxActive >= MapSize(activeChecks')
        /\ stats'.maxActive =
               IF IsResetStep \/ IsLazyResetStep
               THEN MapSize(activeChecks')
               ELSE Max(stats.maxActive, MapSize(activeChecks'))
      ]_vars

\* C21 (reset does not cancel in-flight work): a reset, explicit or lazy,
\* leaves every task whose check function is running exactly as it was; a
\* running task leaves that state only by its check function settling; and
\* when it settles the caller's promise settles with that value or error,
\* also when a reset has meanwhile cleared its entry from the active set.
C21_ResetKeepsInFlight ==
    [][ /\ (IsResetStep \/ IsLazyResetStep) =>
               /\ stats'.lastResetTime = now
               /\ \A i \in CallIds : calls[i].pc = "running" => calls'[i] = calls[i]
        /\ \A i \in CallIds :
               calls[i].pc = "running" =>
                   /\ calls'[i].pc \in {"running", "settled"}
                   /\ calls'[i].pc = "settled" =>
                          /\ calls'[i].result.kind \in {"value", "error"}
                          /\ calls'[i].promise = calls'[i].result
                          /\ calls'[i].invoked = 1
      ]_vars

\* two tasks were in flight when the counters were last reset, more than 5
\* minutes after they were submitted (both settled after it: two settlements
\* are counted against the one start made since), in a run with an explicit
\* reset; one caller holds the value and the other the error of its check
\* function
C21_Witness ==
    \E i, j \in CallIds :
        /\ i < j
        /\ calls[i].pc = "settled" /\ calls[j].pc = "settled"
        /\ calls[i].promise.kind = "value" /\ calls[j].promise.kind = "error"
        /\ resets = 1
        /\ stats.lastResetTime - calls[j].keyTime > 300000
        /\ stats.successes + stats.errors = 2
        /\ stats.totalStarted = 1

\* C22 (ProbeTask lifecycle): an entry enters the active set only with status
\* running, under a key no admitted task has had an entry for before; the
\* status of an entry changes only from running to completed or failed; and
\* an entry is removed only by a cleanup or by a reset.  So a key that has
\* left the active set never enters it again.
C22_TaskLifecycle ==
    [][ /\ \A k \in (DOMAIN activeChecks') \ (DOMAIN activeChecks) :
               /\ activeChecks'[k].status = "running"
               /\ \A i \in CallIds :
                      <<calls[i].url, calls[i].keyTime>> = k => calls[i].invoked = 0
        /\ \A k \in (DOMAIN activeChecks) \cap (DOMAIN activeChecks') :
               activeChecks'[k].status # activeChecks[k].status =>
                   /\ activeChecks[k].status = "running"
                   /\ activeChecks'[k].status \in {"completed", "failed"}
        /\ \A k \in (DOMAIN activeChecks) \ (DOMAIN activeChecks') :
               IsCleanupStep \/ IsResetStep \/ IsLazyResetStep
      ]_vars

\* C23 (the timeout guard is always cleared): the timeout timer of a probe is
\* armed only while its check function waits for fetch; once the check
\* function has returned, by whichever path (body read, body read failed,
\* status other than 200, transport error, timeout), the timer is not armed,
\* for priorityCheck and fullCheck alike.
C23_TimeoutCleared ==
    \A i \in CallIds :
        /\ calls[i].probe.timerArmed =>
               /\ calls[i].pc = "running"
               /\ calls[i].probe.stage = "fetch"
        /\ calls[i].probe.stage \in {"body", "returned"} => ~calls[i].probe.timerArmed
        /\ (calls[i].pc = "settled" /\ calls[i].fn \in {"priority", "full"}) =>
               /\ calls[i].probe.stage = "returned"
               /\ calls[i].result.kind = "value"
               /\ ~calls[i].probe.timerArmed

\* a fast probe returned through the failed body read and a full probe
\* through a transport error that was not the timeout, and neither timer is
\* armed
C23_Witness ==
    \E i, j \in CallIds :
        /\ calls[i].fn = "priority" /\ calls[j].fn = "full"
        /\ calls[i].pc = "settled" /\ calls[j].pc = "settled"
        /\ calls[i].probe.bodyFailed /\ calls[j].probe.caught = "TypeError"
        /\ ~calls[i].probe.timerArmed /\ ~calls[j].probe.timerArmed
        /\ calls[j].probe.timeoutAt > now

\* C24 (settled tasks never outnumber started ones): in every reachable state
\* stats.successes + stats.errors <= stats.totalStarted, so that the success
\* rate of getStats, successes / totalStarted, is at most 100%.
C24_SettledWithinStarted ==
    /\ stats.successes + stats.errors <= stats.totalStarted
    /\ stats.totalStarted > 0 => stats.successes * 100 <= 100 * stats.totalStarted

\* ------------------------------------------------------------ progress

\* the clock reaches the time the oldest cleanup timer is set for
TimerElapses ==
    /\ Len(timers) > 0
    /\ Head(timers).due > now
    /\ now' = Head(timers).due
    /\ UNCHANGED <<extraction, notifier, ticks, resets, config, activeChecks, queue,
                   stats, calls, timers>>

\* clock jumps of the length of the reset window during one behaviour of the
\* progress specification
MaxWindows == 1

\* the backend URL of the progress specification: its calls share a task key
\* when they are made in the same millisecond
LiveUrls == {"a"}

\* the clock moves on by the length of the reset window
WindowElapses ==
    /\ ticks < MaxWindows
    /\ now' = now + ResetInterval
    /\ ticks' = ticks + 1
    /\ UNCHANGED <<extraction, notifier, resets, config, activeChecks, queue, stats,
                   calls, timers>>

\* a caller invokes scheduleCheck(url, checkFn, requestId)
LiveScheduleCheck ==
    /\ Len(calls) < MaxCalls
    /\ \E url \in LiveUrls : Install(scheduleCheck(Ctl, url, "raw", now))
    /\ UNCHANGED <<extraction, notifier, now, ticks, resets, config, timers>>

LiveNext ==
    LiveScheduleCheck \/ Settle \/ Cleanup \/ Reset \/ WindowElapses \/ TimerElapses

\* Every started check function eventually settles, the clock goes on to the
\* time a pending timer is set for, and a timer that is due fires.
LiveSpec ==
    /\ Init
    /\ [][LiveNext]_vars
    /\ WF_vars(Settle)
    /\ WF_vars(TimerElapses)
    /\ WF_vars(Cleanup)

\* C25 (no slot leak): when every started check function settles and every
\* cleanup timer fires, the active set is eventually empty and stays empty
\* once no further scheduleCheck call arrives, whatever the interleaving of
\* completions, cleanups and resets and whichever tasks share a task key;
\* from then on no task is running, none waits and no timer is pending.
C25_NoSlotLeak ==
    <>[](/\ activeChecks = EmptyMap
         /\ timers = <<>>
         /\ \A i \in CallIds : calls[i].pc # "running")

\* two tasks were in flight at a reset, a third call was admitted after it,
\* all three settled and every cleanup has fired: the active set is empty
C25_Witness ==
    /\ Len(calls) = 3
    /\ \A i \in CallIds : calls[i].pc = "done" /\ ~calls[i].queued
    /\ activeChecks = EmptyMap
    /\ timers = <<>>
    /\ stats.totalCompleted = 3
    /\ stats.totalStarted = 1

====
